---- MODULE Spec2Model ----
(***************************************************************************)
(* A model of src/main.cpp: a benchmark that times an elementwise          *)
(* transform of a vector<double> under five strategies (std::transform     *)
(* without a policy, with the seq, par and par_unseq policies, and a       *)
(* hand-written fork-join over K std::threads).                            *)
(*                                                                         *)
(* Doubles are fixed-point integers, Unit to 1.0.  Clock readings are      *)
(* integers 0..MaxClock.  Arrays are functions over 0..N-1, as in the      *)
(* source.  Worker threads are interleaved with the spawning thread one    *)
(* element of std::transform at a time.                                    *)
(*                                                                         *)
(* Three specifications:                                                   *)
(*   Spec      one call of measure_custom_parallel_transform with its      *)
(*             arguments (data, op, K) drawn from bounded sets, K <= 0     *)
(*             included;                                                   *)
(*   SpecMain  the whole program from main(), with the literal lists of    *)
(*             main() cut down to sizes and K_values that TLC can cover;   *)
(*   SpecLive  SpecMain without the thread-creation fault, under the       *)
(*             fairness of a scheduler that runs every runnable thread.    *)
(***************************************************************************)
EXTENDS Integers, Sequences, FiniteSets, TLC

VARIABLES
    pc,             \* position of the main thread
    ret,            \* where measure_custom_parallel_transform returns to
    exit_code,      \* -1 while the process runs, then its exit status
    si,             \* main: index of the current size in sizes
    oi,             \* run_and_print_all_transforms: index of the current op
    strategy,       \* run_and_print_all_transforms: the strategy reached
    data,           \* the sample array
    op,             \* name of the operation being applied
    ki,             \* measure_and_print_custom_parallel: index in K_values
    min_time,       \* measure_and_print_custom_parallel: min_time
    best_K,         \* measure_and_print_custom_parallel: best_K
    Karg,           \* measure_custom_parallel_transform: K as passed
    K,              \* measure_custom_parallel_transform: K after line 52
    N,              \* measure_custom_parallel_transform: N
    result,         \* the result vector of the running measure function
    threads,        \* measure_custom_parallel_transform: threads
    chunk_size,     \* measure_custom_parallel_transform: chunk_size
    remainder,      \* measure_custom_parallel_transform: remainder
    current_start,  \* measure_custom_parallel_transform: current_start
    i,              \* measure_custom_parallel_transform: spawn loop counter
    j,              \* measure_custom_parallel_transform: join loop position
    start,          \* start timestamp, << >> before it is taken
    end,            \* end timestamp, << >> before it is taken
    elapsed,        \* the value the last measure function returned, or << >>
    wcount,         \* history: number of writes to each result index
    acc,            \* history: memory accesses of the worker threads
    outputs,        \* history: results of the strategies run on this data, op
    rows,           \* history: the (K, time) rows printed by the current sweep
    bestLine,       \* history: << >> or <<best_K>> once "Best K" is printed
    log             \* history: calls begun and ended, lines printed

vars == <<pc, ret, exit_code, si, oi, strategy, data, op, ki, min_time, best_K,
          Karg, K, N, result, threads, chunk_size, remainder, current_start,
          i, j, start, end, elapsed, wcount, acc, outputs, rows, bestLine, log>>

mainVars == <<si, oi, strategy, ki, min_time, best_K, rows, bestLine>>
customVars == <<Karg, K, N, threads, chunk_size, remainder, current_start, i, j,
                wcount, acc>>

(***************************************************************************)
(* Bounds of the model.                                                    *)
(***************************************************************************)
\* fixed-point scale: Unit stands for 1.0
Unit == 1000
\* clock readings are 0..MaxClock
MaxClock == 1
\* Spec: array lengths 0..MaxN
MaxN == 4
\* Spec: requested thread counts -MaxNegK..MaxK
MaxK == 4
MaxNegK == 2

(***************************************************************************)
(* Program constants.                                                      *)
(***************************************************************************)
\* main.cpp:149, the seed passed to generate_data
Seed == 42
\* main.cpp:28-31, sum of sin(i) for i = 0..99 is 0.37919..., in 1/1000
SinSumMilli == 379
\* main.cpp:137, the sizes {10'000, 100'000, 1'000'000} cut down to lengths
\* whose K-way splits TLC can interleave exhaustively
sizes == <<2, 3>>
\* main.cpp:141, the candidates {1, 2, 4, 8, 16, 32} cut down to the first
\* three (one thread, an even split, more threads than elements)
K_values == <<1, 2, 4>>
\* main.cpp:143-146
ops == <<"fast", "slow">>
\* main.cpp:86, numeric_limits<double>::max(): above every elapsed time
DoubleMax == MaxClock + 1

(***************************************************************************)
(* Pure functions.                                                         *)
(***************************************************************************)
\* main.cpp:23-25
fast_op(x) == x + Unit

\* main.cpp:27-33; s is the same for every x
slow_op(x) == ((SinSumMilli * Unit) \div 1000) + x

\* a call through std::function<double(double)> of ops (main.cpp:143-146)
ApplyOp(o, x) == IF o = "fast" THEN fast_op(x) ELSE slow_op(x)

\* main.cpp:15-18: the seeded generator is a deterministic stream; mt19937
\* is stood in for by a small linear congruential generator, and the
\* uniform distribution on [0, 1) by scaling its state into 0..Unit-1.
RECURSIVE GenState(_, _)
GenState(seed, n) ==
    IF n = 0 THEN seed % 65537
    ELSE (GenState(seed, n - 1) * 75 + 74) % 65537

\* main.cpp:13-21
generate_data(n, seed) ==
    [idx \in 0..(n - 1) |-> (GenState(seed, idx + 1) * Unit) \div 65537]

\* std::vector<double> v(n): n value-initialised doubles
ZeroVector(n) == [idx \in 0..(n - 1) |-> 0]

\* one iteration of std::transform: *d_first = op(*first)
TransformStep(out, in, first, d_first, o) ==
    [out EXCEPT ![d_first] = ApplyOp(o, in[first])]

\* std::transform(first, last, d_first, op) over in, writing out
RECURSIVE StdTransform(_, _, _, _, _, _)
StdTransform(out, in, first, last, d_first, o) ==
    IF first >= last THEN out
    ELSE StdTransform(TransformStep(out, in, first, d_first, o), in,
                      first + 1, last, d_first + 1, o)

\* std::chrono::high_resolution_clock::now(): with the compiler named on
\* line 1 (gcc, libstdc++) this is system_clock, is_steady == false; a
\* reading is not bounded below by an earlier reading.
high_resolution_clock_now == 0..MaxClock

\* duration<double>(end - start).count()
Duration(s, e) == e - s

\* line 52
CoerceK_abs(k) == IF k < 0 THEN -k ELSE IF k = 0 THEN 1 ELSE k
CoerceK(k) == IF k <= 0 THEN 1 ELSE k

\* line 64
ChunkEnd_noextra(cs, size, idx, rem) == cs + size
ChunkEnd(cs, size, idx, rem) == cs + size + (IF idx < rem THEN 1 ELSE 0)

\* line 69
NextStart_forgotten(cs, ce) == cs
NextStart(cs, ce) == ce

\* line 63, the loop condition
SpawnMore_offbyone(idx, k) == idx <= k
SpawnMore(idx, k) == idx < k

\* line 67: result.begin() + current_start
DestFirst_zero(first) == 0
DestFirst(first) == first

\* line 73: join() returns once the thread has finished
Joinable_nowait(t) == t.st # "joined"
Joinable_never(t) == t.st = "detached"
Joinable(t) == t.st = "finished"

\* line 92
Better_greater(t, m) == t > m
Better(t, m) == t < m

\* run_and_print_all_transforms, lines 113-130: the order of the calls
AfterStrategy_swapped(s) ==
    CASE s = "none" -> "par"
      [] s = "par" -> "seq"
      [] s = "seq" -> "par_unseq"
      [] s = "par_unseq" -> "custom"
      [] OTHER -> "done"
AfterStrategy(s) ==
    CASE s = "none" -> "seq"
      [] s = "seq" -> "par"
      [] s = "par" -> "par_unseq"
      [] s = "par_unseq" -> "custom"
      [] OTHER -> "done"

Policies == {"seq", "par", "par_unseq"}

StrategyLabel(s) ==
    CASE s = "none" -> "Sequential transform (no policy): "
      [] s = "seq" -> "Transform with seq policy: "
      [] s = "par" -> "Transform with par policy: "
      [] OTHER -> "Transform with par_unseq policy: "

(***************************************************************************)
(* Initial states.                                                         *)
(***************************************************************************)
InitLocals ==
    /\ K = 0 /\ N = 0 /\ result = << >> /\ threads = << >>
    /\ chunk_size = 0 /\ remainder = 0 /\ current_start = 0
    /\ i = 0 /\ j = 1
    /\ start = << >> /\ end = << >> /\ elapsed = << >>
    /\ wcount = << >> /\ acc = {} /\ outputs = {}
    /\ rows = << >> /\ bestLine = << >> /\ log = << >>
    /\ exit_code = -1
    /\ si = 1 /\ oi = 1 /\ ki = 1 /\ min_time = DoubleMax /\ best_K = 1

\* one call of measure_custom_parallel_transform(data, op, K)
Init ==
    /\ pc = "custom_entry" /\ ret = "caller"
    /\ strategy = "custom"
    /\ \E n \in 0..MaxN : \E s \in {Seed, Seed + 1} : data = generate_data(n, s)
    /\ op \in {"fast", "slow"}
    /\ Karg \in (-MaxNegK)..MaxK
    /\ InitLocals

\* the process at the entry of main()
InitMain ==
    /\ pc = "main_start" /\ ret = "sweep_row"
    /\ strategy = "none"
    /\ data = << >>
    /\ op = "fast"
    /\ Karg = 1
    /\ InitLocals

(***************************************************************************)
(* measure_custom_parallel_transform, lines 51-78.                         *)
(***************************************************************************)
Len0(f) == Cardinality(DOMAIN f)

\* lines 52-57: coerce K, read N, allocate result and threads, take start
custom_entry ==
    /\ pc = "custom_entry"
    /\ K' = CoerceK(Karg)
    /\ N' = Len0(data)
    /\ result' = ZeroVector(Len0(data))
    /\ wcount' = ZeroVector(Len0(data))
    /\ threads' = << >>
    /\ acc' = {}
    /\ start' \in {<<t>> : t \in high_resolution_clock_now}
    /\ end' = << >>
    /\ log' = Append(log, <<"start", "custom", Karg>>)
    /\ pc' = "custom_split"
    /\ UNCHANGED <<ret, exit_code, data, op, Karg, chunk_size, remainder,
                   current_start, i, j, elapsed, outputs>>
    /\ UNCHANGED mainVars

\* lines 59-63: chunk_size, remainder, current_start = 0, i = 0
custom_split ==
    /\ pc = "custom_split"
    /\ chunk_size' = N \div K
    /\ remainder' = N % K
    /\ current_start' = 0
    /\ i' = 0
    /\ pc' = "spawn_loop"
    /\ UNCHANGED <<ret, exit_code, data, op, Karg, K, N, result, threads, j,
                   start, end, elapsed, wcount, acc, outputs, log>>
    /\ UNCHANGED mainVars

\* lines 63-70, one iteration: the thread captures current_start and
\* current_end by value and starts running
spawn ==
    /\ pc = "spawn_loop"
    /\ SpawnMore(i, K)
    /\ LET current_end == ChunkEnd(current_start, chunk_size, i, remainder)
       IN /\ threads' = Append(threads,
                 [first |-> current_start, last |-> current_end,
                  pos |-> current_start, d |-> DestFirst(current_start),
                  st |-> "running", joins |-> 0])
          /\ current_start' = NextStart(current_start, current_end)
    /\ i' = i + 1
    /\ UNCHANGED <<pc, ret, exit_code, data, op, Karg, K, N, result,
                   chunk_size, remainder, j, start, end, elapsed, wcount, acc,
                   outputs, log>>
    /\ UNCHANGED mainVars

\* line 65: the std::thread constructor throws std::system_error when the
\* thread cannot be created; nothing catches it, and unwinding would destroy
\* joinable threads: std::terminate ends the process
spawn_fail ==
    /\ pc = "spawn_loop"
    /\ SpawnMore(i, K)
    /\ pc' = "terminated"
    /\ exit_code' = 134
    /\ UNCHANGED <<ret, data, op, result, start, end, elapsed, outputs, log>>
    /\ UNCHANGED customVars
    /\ UNCHANGED mainVars

\* line 63: the loop condition fails; line 72 begins
spawn_done ==
    /\ pc = "spawn_loop"
    /\ ~SpawnMore(i, K)
    /\ j' = 1
    /\ pc' = "join_loop"
    /\ UNCHANGED <<ret, exit_code, data, op, Karg, K, N, result, threads,
                   chunk_size, remainder, current_start, i, start, end,
                   elapsed, wcount, acc, outputs, log>>
    /\ UNCHANGED mainVars

\* lines 66-67, in thread w: one iteration of std::transform
worker_step(w) ==
    /\ pc \notin {"terminated", "exited"}
    /\ w \in 1..Len(threads)
    /\ threads[w].st = "running"
    /\ threads[w].pos < threads[w].last
    /\ result' = TransformStep(result, data, threads[w].pos, threads[w].d, op)
    /\ wcount' = [wcount EXCEPT ![threads[w].d] = @ + 1]
    /\ acc' = acc \cup {<<w, "data", threads[w].pos, "r">>,
                        <<w, "result", threads[w].d, "w">>}
    /\ threads' = [threads EXCEPT ![w].pos = @ + 1, ![w].d = @ + 1]
    /\ UNCHANGED <<pc, ret, exit_code, data, op, Karg, K, N, chunk_size,
                   remainder, current_start, i, j, start, end, elapsed,
                   outputs, log>>
    /\ UNCHANGED mainVars

\* lines 66-68, in thread w: std::transform returns and the thread ends
worker_exit(w) ==
    /\ pc \notin {"terminated", "exited"}
    /\ w \in 1..Len(threads)
    /\ threads[w].st = "running"
    /\ threads[w].pos >= threads[w].last
    /\ threads' = [threads EXCEPT ![w].st = "finished"]
    /\ UNCHANGED <<pc, ret, exit_code, data, op, Karg, K, N, result,
                   chunk_size, remainder, current_start, i, j, start, end,
                   elapsed, wcount, acc, outputs, log>>
    /\ UNCHANGED mainVars

\* lines 72-74, one iteration: t.join() blocks until the thread has ended
join ==
    /\ pc = "join_loop"
    /\ j <= Len(threads)
    /\ Joinable(threads[j])
    /\ threads' = [threads EXCEPT ![j].st = "joined", ![j].joins = @ + 1]
    /\ j' = j + 1
    /\ UNCHANGED <<pc, ret, exit_code, data, op, Karg, K, N, result,
                   chunk_size, remainder, current_start, i, start, end,
                   elapsed, wcount, acc, outputs, log>>
    /\ UNCHANGED mainVars

\* lines 76-77: take end, return the elapsed seconds to the caller
custom_end ==
    /\ pc = "join_loop"
    /\ j > Len(threads)
    /\ \E t \in high_resolution_clock_now :
          /\ end' = <<t>>
          /\ elapsed' = <<Duration(start[1], t)>>
    /\ outputs' = outputs \cup {<<"custom", Karg, result>>}
    /\ log' = Append(log, <<"end", "custom", Karg>>)
    /\ pc' = ret
    /\ UNCHANGED <<ret, exit_code, data, op, result, start>>
    /\ UNCHANGED customVars
    /\ UNCHANGED mainVars

CustomNoFault ==
    \/ custom_entry
    \/ custom_split
    \/ spawn
    \/ spawn_done
    \/ \E w \in 1..(MaxK + 1) : worker_step(w)
    \/ \E w \in 1..(MaxK + 1) : worker_exit(w)
    \/ join
    \/ custom_end

Next ==
    \/ CustomNoFault
    \/ spawn_fail

Spec == Init /\ [][Next]_vars

(***************************************************************************)
(* measure_transform and measure_policy_transform, lines 35-49.            *)
(***************************************************************************)
\* lines 36-37 (44-45): allocate result, take start
MeasureBegin ==
    /\ result' = ZeroVector(Len0(data))
    /\ start' \in {<<t>> : t \in high_resolution_clock_now}
    /\ end' = << >>
    /\ log' = Append(log, <<"start", strategy>>)

\* lines 39-40 (47-48) and the caller's print of the time (114, 118, 122, 126)
MeasureEnd ==
    /\ \E t \in high_resolution_clock_now :
          /\ end' = <<t>>
          /\ elapsed' = <<Duration(start[1], t)>>
    /\ outputs' = outputs \cup {<<strategy, 0, result>>}
    /\ log' = log \o << <<"end", strategy>>, <<"print", StrategyLabel(strategy)>> >>
    /\ strategy' = AfterStrategy(strategy)
    /\ pc' = "rp_strategy"

\* line 113 calling lines 35-37
measure_transform_begin ==
    /\ pc = "rp_strategy" /\ strategy = "none"
    /\ MeasureBegin
    /\ pc' = "mt_transform"
    /\ UNCHANGED <<ret, exit_code, data, op, elapsed, outputs>>
    /\ UNCHANGED customVars
    /\ UNCHANGED mainVars

\* line 38
measure_transform_apply ==
    /\ pc = "mt_transform"
    /\ result' = StdTransform(result, data, 0, Len0(data), 0, op)
    /\ pc' = "mt_end"
    /\ UNCHANGED <<ret, exit_code, data, op, start, end, elapsed, outputs, log>>
    /\ UNCHANGED customVars
    /\ UNCHANGED mainVars

\* lines 39-40, then line 114
measure_transform_end ==
    /\ pc = "mt_end"
    /\ MeasureEnd
    /\ UNCHANGED <<ret, exit_code, data, op, result, start>>
    /\ UNCHANGED customVars
    /\ UNCHANGED <<si, oi, ki, min_time, best_K, rows, bestLine>>

\* lines 117, 121, 125 calling lines 43-45
measure_policy_transform_begin ==
    /\ pc = "rp_strategy" /\ strategy \in Policies
    /\ MeasureBegin
    /\ pc' = "mpt_transform"
    /\ UNCHANGED <<ret, exit_code, data, op, elapsed, outputs>>
    /\ UNCHANGED customVars
    /\ UNCHANGED mainVars

\* line 46: whatever the policy schedules, the call returns with every
\* element of the range transformed
measure_policy_transform_apply ==
    /\ pc = "mpt_transform"
    /\ result' = StdTransform(result, data, 0, Len0(data), 0, op)
    /\ pc' = "mpt_end"
    /\ UNCHANGED <<ret, exit_code, data, op, start, end, elapsed, outputs, log>>
    /\ UNCHANGED customVars
    /\ UNCHANGED mainVars

\* lines 47-48, then line 118, 122 or 126
measure_policy_transform_end ==
    /\ pc = "mpt_end"
    /\ MeasureEnd
    /\ UNCHANGED <<ret, exit_code, data, op, result, start>>
    /\ UNCHANGED customVars
    /\ UNCHANGED <<si, oi, ki, min_time, best_K, rows, bestLine>>

(***************************************************************************)
(* measure_and_print_custom_parallel, lines 80-101.                        *)
(***************************************************************************)
\* lines 129-130 calling lines 84-87
sweep_header ==
    /\ pc = "rp_strategy" /\ strategy = "custom"
    /\ min_time' = DoubleMax
    /\ best_K' = 1
    /\ ki' = 1
    /\ rows' = << >>
    /\ bestLine' = << >>
    /\ log' = log \o << <<"print", "Custom parallel transform:">>,
                        <<"print", "K Time (seconds)">> >>
    /\ pc' = "sweep_loop"
    /\ UNCHANGED <<ret, exit_code, si, oi, strategy, data, op, result, start,
                   end, elapsed, outputs>>
    /\ UNCHANGED customVars

\* lines 89-90: the next candidate is passed to
\* measure_custom_parallel_transform
sweep_call ==
    /\ pc = "sweep_loop"
    /\ ki <= Len(K_values)
    /\ Karg' = K_values[ki]
    /\ ret' = "sweep_row"
    /\ pc' = "custom_entry"
    /\ UNCHANGED <<exit_code, data, op, K, N, result, threads, chunk_size,
                   remainder, current_start, i, j, start, end, elapsed, wcount,
                   acc, outputs, log>>
    /\ UNCHANGED mainVars

\* lines 90-95: the call has returned time_custom; print the row, keep the
\* minimum
sweep_row ==
    /\ pc = "sweep_row"
    /\ LET time_custom == elapsed[1]
           Kc == K_values[ki]
       IN /\ rows' = Append(rows, <<Kc, time_custom>>)
          /\ log' = Append(log, <<"print", "row", Kc>>)
          /\ IF Better(time_custom, min_time)
             THEN min_time' = time_custom /\ best_K' = Kc
             ELSE UNCHANGED <<min_time, best_K>>
    /\ ki' = ki + 1
    /\ pc' = "sweep_loop"
    /\ UNCHANGED <<ret, exit_code, si, oi, strategy, data, op, result, start,
                   end, elapsed, outputs, bestLine>>
    /\ UNCHANGED customVars

\* lines 98-100, the loop being over, then line 132 of the caller
sweep_best ==
    /\ pc = "sweep_loop"
    /\ ki > Len(K_values)
    /\ bestLine' = <<best_K>>
    /\ log' = log \o << <<"print", "Best K: ">>,
                        <<"print", "Relation to processor threads: ">>,
                        <<"print", "-------------------------------------">> >>
    /\ strategy' = AfterStrategy(strategy)
    /\ oi' = oi + 1
    /\ pc' = "rp_loop"
    /\ UNCHANGED <<ret, exit_code, data, op, result, start, end, elapsed,
                   outputs>>
    /\ UNCHANGED customVars
    /\ UNCHANGED <<si, ki, min_time, best_K, rows>>

(***************************************************************************)
(* run_and_print_all_transforms (lines 103-134) and main (lines 136-157).  *)
(***************************************************************************)
\* lines 109-110: the next operation
rp_next_op ==
    /\ pc = "rp_loop"
    /\ oi <= Len(ops)
    /\ op' = ops[oi]
    /\ strategy' = "none"
    /\ outputs' = {}
    /\ log' = Append(log, <<"print", "Operation: ", ops[oi]>>)
    /\ pc' = "rp_strategy"
    /\ UNCHANGED <<ret, exit_code, data, result, start, end, elapsed>>
    /\ UNCHANGED customVars
    /\ UNCHANGED <<si, oi, ki, min_time, best_K, rows, bestLine>>

\* line 109 with no operation left: return to main, line 148
rp_return ==
    /\ pc = "rp_loop"
    /\ oi > Len(ops)
    /\ si' = si + 1
    /\ pc' = "main_loop"
    /\ UNCHANGED <<ret, exit_code, data, op, result, start, end, elapsed,
                   outputs, log>>
    /\ UNCHANGED customVars
    /\ UNCHANGED <<oi, strategy, ki, min_time, best_K, rows, bestLine>>

\* lines 137-146
main_start ==
    /\ pc = "main_start"
    /\ si' = 1
    /\ log' = Append(log, <<"print", "Number of processor threads: ">>)
    /\ pc' = "main_loop"
    /\ UNCHANGED <<ret, exit_code, data, op, result, start, end, elapsed,
                   outputs>>
    /\ UNCHANGED customVars
    /\ UNCHANGED <<oi, strategy, ki, min_time, best_K, rows, bestLine>>

\* lines 148-152: generate the data of the next size, call
\* run_and_print_all_transforms
main_next_size ==
    /\ pc = "main_loop"
    /\ si <= Len(sizes)
    /\ data' = generate_data(sizes[si], Seed)
    /\ log' = log \o << <<"generate_data", sizes[si]>>,
                        <<"print", "Data size: ", sizes[si]>> >>
    /\ oi' = 1
    /\ outputs' = {}
    /\ pc' = "rp_loop"
    /\ UNCHANGED <<ret, exit_code, op, result, start, end, elapsed>>
    /\ UNCHANGED customVars
    /\ UNCHANGED <<si, strategy, ki, min_time, best_K, rows, bestLine>>

\* line 156
main_return ==
    /\ pc = "main_loop"
    /\ si > Len(sizes)
    /\ exit_code' = 0
    /\ pc' = "exited"
    /\ UNCHANGED <<ret, data, op, result, start, end, elapsed, outputs, log>>
    /\ UNCHANGED customVars
    /\ UNCHANGED mainVars

MainNoFault ==
    \/ main_start
    \/ main_next_size
    \/ main_return
    \/ rp_next_op
    \/ rp_return
    \/ measure_transform_begin
    \/ measure_transform_apply
    \/ measure_transform_end
    \/ measure_policy_transform_begin
    \/ measure_policy_transform_apply
    \/ measure_policy_transform_end
    \/ sweep_header
    \/ sweep_call
    \/ sweep_row
    \/ sweep_best
    \/ CustomNoFault

NextMain ==
    \/ MainNoFault
    \/ spawn_fail

SpecMain == InitMain /\ [][NextMain]_vars

(***************************************************************************)
(* SpecLive: the program with no thread-creation fault, every runnable     *)
(* thread being scheduled again and again.                                 *)
(***************************************************************************)
MainThread ==
    \/ main_start
    \/ main_next_size
    \/ main_return
    \/ rp_next_op
    \/ rp_return
    \/ measure_transform_begin
    \/ measure_transform_apply
    \/ measure_transform_end
    \/ measure_policy_transform_begin
    \/ measure_policy_transform_apply
    \/ measure_policy_transform_end
    \/ sweep_header
    \/ sweep_call
    \/ sweep_row
    \/ sweep_best
    \/ custom_entry
    \/ custom_split
    \/ spawn
    \/ spawn_done
    \/ join
    \/ custom_end

Worker(w) == worker_step(w) \/ worker_exit(w)

\* the thread counts main() passes grow along K_values
LiveWorkers == 1..K_values[Len(K_values)]

NextLive ==
    \/ MainThread
    \/ \E w \in LiveWorkers : Worker(w)

SpecLive ==
    /\ InitMain
    /\ [][NextLive]_vars
    /\ WF_vars(MainThread)
    /\ \A w \in LiveWorkers : WF_vars(Worker(w))

(***************************************************************************)
(* Vocabulary of the properties.                                           *)
(***************************************************************************)
ChunkSize(t) == t.last - t.first

RECURSIVE SumChunks(_)
SumChunks(ts) ==
    IF ts = << >> THEN 0 ELSE ChunkSize(Head(ts)) + SumChunks(Tail(ts))

\* the spawn loop of the current call is over
SpawnOver == pc = "join_loop" \/ pc = ret

\* the current call of measure_custom_parallel_transform has returned
Returned == pc = ret

AllJoined == \A t \in 1..Len(threads) : threads[t].st = "joined"

IsPrefix(a, b) == Len(a) <= Len(b) /\ \A n \in 1..Len(a) : a[n] = b[n]

RECURSIVE Flatten(_)
Flatten(ss) == IF ss = << >> THEN << >> ELSE Head(ss) \o Flatten(Tail(ss))

ExpectedPlain(s, label) ==
    << <<"start", s>>, <<"end", s>>, <<"print", label>> >>

ExpectedTrial(k) ==
    << <<"start", "custom", k>>, <<"end", "custom", k>>, <<"print", "row", k>> >>

ExpectedOp(o) ==
    << <<"print", "Operation: ", o>> >>
    \o ExpectedPlain("none", "Sequential transform (no policy): ")
    \o ExpectedPlain("seq", "Transform with seq policy: ")
    \o ExpectedPlain("par", "Transform with par policy: ")
    \o ExpectedPlain("par_unseq", "Transform with par_unseq policy: ")
    \o << <<"print", "Custom parallel transform:">>,
          <<"print", "K Time (seconds)">> >>
    \o Flatten([k \in 1..Len(K_values) |-> ExpectedTrial(K_values[k])])
    \o << <<"print", "Best K: ">>,
          <<"print", "Relation to processor threads: ">>,
          <<"print", "-------------------------------------">> >>

ExpectedSize(n) ==
    << <<"generate_data", n>>, <<"print", "Data size: ", n>> >>
    \o Flatten([o \in 1..Len(ops) |-> ExpectedOp(ops[o])])

ExpectedLog ==
    << <<"print", "Number of processor threads: ">> >>
    \o Flatten([s \in 1..Len(sizes) |-> ExpectedSize(sizes[s])])

(***************************************************************************)
(* The claims.                                                             *)
(***************************************************************************)

\* C1: once the spawn loop is over, the K chunks [first, last) start at 0,
\* each begins where the one before ends, their sizes sum to N, any two
\* sizes differ by at most one, and exactly the first N mod K chunks have
\* size N div K + 1 while the others have size N div K.
C1_ChunksPartition ==
    SpawnOver =>
        /\ K >= 1
        /\ Len(threads) = K
        /\ threads[1].first = 0
        /\ \A t \in 1..(K - 1) : threads[t + 1].first = threads[t].last
        /\ SumChunks(threads) = N
        /\ \A a, b \in 1..K :
              ChunkSize(threads[a]) - ChunkSize(threads[b]) \in {-1, 0, 1}
        /\ \A t \in 1..K :
              ChunkSize(threads[t]) =
                  (N \div K) + (IF t <= N % K THEN 1 ELSE 0)

\* C1 witness: a split with a remainder and at least three chunks
C1_Witness ==
    /\ SpawnOver
    /\ K >= 3
    /\ N > K
    /\ N % K # 0
    /\ ChunkSize(threads[1]) = ChunkSize(threads[K]) + 1

\* C2: no two threads access the same element, one of them writing; no
\* thread writes the sample array; every write of a worker falls into its
\* own chunk of the result array; the sample array is the one passed in.
C2_NoDataRace ==
    /\ \A a, b \in acc :
          (a[1] # b[1] /\ a[2] = b[2] /\ a[3] = b[3]) => (a[4] = "r" /\ b[4] = "r")
    /\ \A a \in acc : a[2] = "data" => a[4] = "r"
    /\ \A a \in acc :
          a[2] = "result" =>
              /\ a[4] = "w"
              /\ threads[a[1]].first <= a[3]
              /\ a[3] < threads[a[1]].last

\* C2 witness: two workers have both written while the spawn loop is still
\* running and some worker still has elements to write
C2_Witness ==
    /\ pc = "spawn_loop"
    /\ \E a, b \in acc : a[1] # b[1] /\ a[4] = "w" /\ b[4] = "w"
    /\ \E t \in 1..Len(threads) :
          threads[t].st = "running" /\ threads[t].pos < threads[t].last

\* C3: when the end timestamp has been taken (or the call has returned),
\* all K workers have been spawned, have run their chunk to the end and
\* have been joined, and every element has been written; the start
\* timestamp is taken before the first worker exists.
C3_TimerAfterJoin ==
    /\ (end # << >> \/ Returned) =>
          /\ Len(threads) = K
          /\ \A t \in 1..Len(threads) :
                threads[t].st = "joined" /\ threads[t].pos = threads[t].last
          /\ \A idx \in 0..(N - 1) : wcount[idx] >= 1
    /\ threads # << >> => start # << >>

\* C3 witness: a call with several workers and elements has returned
C3_Witness ==
    /\ Returned
    /\ end # << >>
    /\ K >= 2
    /\ N >= 2

\* C5: for a requested K <= 0 the call runs as for K = 1: one worker, one
\* chunk [0, N), and at the return one thread that wrote every element.
C5_NonPositiveKIsOne ==
    (Karg <= 0 /\ pc # "custom_entry") =>
        /\ K = 1
        /\ Len(threads) <= 1
        /\ SpawnOver =>
              /\ Len(threads) = 1
              /\ threads[1].first = 0
              /\ threads[1].last = N
        /\ Returned =>
              /\ \A idx \in 0..(N - 1) : wcount[idx] = 1
              /\ \A a \in acc : a[1] = 1

\* C5 witness: a call with a negative K over several elements has returned
C5_Witness ==
    /\ Karg < 0
    /\ Returned
    /\ N >= 2

\* C9: a call spawns exactly K threads, never more, also when K > N, and
\* joins each exactly once before it returns; outside the spawn and join
\* loops of a call no worker thread is unjoined.
C9_SpawnAndJoinOnce ==
    /\ pc \in {"spawn_loop", "join_loop"} =>
          /\ Len(threads) <= K
          /\ \A t \in 1..Len(threads) : threads[t].joins <= 1
    /\ Returned => Len(threads) = K
    /\ pc \notin {"spawn_loop", "join_loop", "terminated"} =>
          \A t \in 1..Len(threads) :
              threads[t].st = "joined" /\ threads[t].joins = 1

\* C9 witness: the next trial begins after one with more threads than
\* elements, some of them with an empty chunk
C9_Witness ==
    /\ pc = "custom_entry"
    /\ Len(threads) > N
    /\ N >= 1
    /\ \E t \in 1..Len(threads) : ChunkSize(threads[t]) = 0

\* C4: the result arrays of the strategies run on the same data with the
\* same operation are equal; the result of the custom strategy has length
\* N and holds op(data[i]) at every i, each index written exactly once.
C4_SameOutputs ==
    /\ \A a, b \in outputs : a[3] = b[3]
    /\ \A a \in outputs :
          a[1] = "custom" =>
              /\ DOMAIN a[3] = 0..(Len0(data) - 1)
              /\ \A idx \in DOMAIN data : a[3][idx] = ApplyOp(op, data[idx])
    /\ pc = "sweep_row" => \A idx \in 0..(N - 1) : wcount[idx] = 1

\* C4 witness: all four library strategies and every custom trial have run
\* for the slow operation on the larger array
C4_Witness ==
    /\ op = "slow"
    /\ Len0(data) = sizes[Len(sizes)]
    /\ {a[1] : a \in outputs} = {"none", "seq", "par", "par_unseq", "custom"}
    /\ {a[2] : a \in {b \in outputs : b[1] = "custom"}} =
           {K_values[k] : k \in 1..Len(K_values)}

\* C6: the rows are printed for the candidates in list order, and the
\* "Best K" line names a candidate of the list whose printed time no other
\* row undercuts.
C6_BestIsMinimum ==
    /\ Len(rows) <= Len(K_values)
    /\ \A r \in 1..Len(rows) : rows[r][1] = K_values[r]
    /\ bestLine # << >> =>
          /\ Len(rows) = Len(K_values)
          /\ \E r \in 1..Len(rows) :
                /\ rows[r][1] = bestLine[1]
                /\ \A q \in 1..Len(rows) : rows[r][2] <= rows[q][2]

\* C6 witness: the best candidate is the last one, the times differing
C6_Witness ==
    /\ bestLine = <<K_values[Len(K_values)]>>
    /\ rows[1][2] > rows[Len(rows)][2]

\* C7: the calls and the printed lines occur in the order sizes (data
\* generated once each), operations, then unscheduled, seq, par, par_unseq
\* and the custom trials in candidate order, each call ending before the
\* next begins; no library strategy runs while a worker thread is unjoined.
C7_FixedOrder ==
    /\ IsPrefix(log, ExpectedLog)
    /\ pc \in {"mt_transform", "mt_end", "mpt_transform", "mpt_end"} => AllJoined
    /\ pc = "exited" => log = ExpectedLog

\* C7 witness: the second operation of the second size is at its par
\* strategy after the sweeps of the earlier pairs
C7_Witness ==
    /\ si = 2 /\ oi = 2
    /\ pc = "mpt_transform" /\ strategy = "par"
    /\ threads # << >>

\* C8: the elapsed time a measure function returns is never negative.
C8_ElapsedNonNegative == elapsed # << >> => elapsed[1] >= 0

\* C10: under fair scheduling and without a fault the process ends with
\* exit code 0, every call of every (size, operation, strategy, K) having
\* begun and ended and every worker having been joined.
C10_Terminates ==
    <>(/\ pc = "exited"
       /\ exit_code = 0
       /\ log = ExpectedLog
       /\ AllJoined)

\* C10 witness: the process has exited with code 0 after its last sweep
C10_Witness ==
    /\ pc = "exited"
    /\ exit_code = 0
    /\ bestLine # << >>
    /\ Len(threads) = K_values[Len(K_values)]

====
